---- MODULE Spec2Model ----
(***************************************************************************)
(* Pattern Mirror: the App component (history / profile store and the      *)
(* analysis orchestrator, handleAnalyze) and the geminiService prompt      *)
(* builder and response handling (analyzePatterns).                        *)
(*                                                                         *)
(* Strings that the code only passes along are TLA+ strings; strings the   *)
(* code measures, trims or slices (journal text) are sequences of          *)
(* one-character strings.  A JavaScript value that may be null, undefined  *)
(* or of several types is a record with one tag field, so that values of   *)
(* different types can be compared.                                        *)
(***************************************************************************)
EXTENDS Integers, Sequences, FiniteSets, TLC

VARIABLES
    apiKey,         \* process.env.API_KEY is set (truthy)
    phase,          \* "mount" before the mount effect has run, then "ready"
    storedHistory,  \* localStorage record "patternMirrorHistory"
    storedProfile,  \* localStorage record "patternMirrorProfile"
    journalText,    \* React state journalText
    journalPhotos,  \* React state journalPhotos (the files)
    spacePhotos,    \* React state spacePhotos (the files)
    history,        \* React state history
    profile,        \* React state profile (Null when absent)
    analysisState,  \* React state analysisState
    calls,          \* the handleAnalyze invocations that have not finished
    nextId,         \* number of ids crypto.randomUUID() has handed out
    clock,          \* the wall clock read by new Date()
    browser,        \* the browser the page runs in
    nextFile        \* number of File objects the file inputs have handed out

vars == <<apiKey, phase, storedHistory, storedProfile, journalText, journalPhotos,
          spacePhotos, history, profile, analysisState, calls, nextId, clock,
          browser, nextFile>>

-----------------------------------------------------------------------------
(* Bounds of the model *)

MaxCalls == 2       \* handleAnalyze invocations in one session that may succeed
MaxInFlight == 2    \* handleAnalyze invocations pending at the same time
MaxPhotos == 1      \* photos the user selects per category
MaxPast == 12       \* length of the histories the prompt builder is given
TicksPerDay == 2    \* clock ticks per calendar day
MaxBatch == 2       \* photos per category the request builder is given
MaxTicks == 1       \* ticks of the wall clock in one session
MaxSelected == 2    \* files the user selects in one session

(* Program constants *)

HistoryWindow == 10     \* pastEntries.slice(-10)
SnippetBound == 400     \* e.text.slice(0, 400)
TextLimit == 10000      \* e.target.value.slice(0, 10000)
maxFiles == 5           \* FileUpload's default maxFiles

-----------------------------------------------------------------------------
(* JavaScript values *)

Undefined == [undef |-> TRUE]
Null == [null |-> TRUE]
Str(s) == [str |-> s]
Arr(a) == [arr |-> a]

\* obj.f : a property that is not there reads as undefined
Get(obj, f) == IF f \in DOMAIN obj THEN obj[f] ELSE Undefined

Min(a, b) == IF a < b THEN a ELSE b
Max(a, b) == IF a > b THEN a ELSE b

\* s.slice(from, to) for 0 <= from
Slice(s, from, to) == SubSeq(s, from + 1, Min(to, Len(s)))

\* s.slice(-k) of an array
SliceLast(s, k) == SubSeq(s, Max(Len(s) - k, 0) + 1, Len(s))

\* s.reverse()
Reverse(s) == [i \in 1..Len(s) |-> s[Len(s) + 1 - i]]

\* The characters String.prototype.trim strips: WhiteSpace and LineTerminator
\* of ECMAScript.  A character that has no escape in a TLA+ string is written
\* as the text of its \\u escape, which stands for the one character.
WhiteSpaceChars ==
    {"\t", "\\u000B", "\f", " ", "\\u00A0", "\\u1680", "\\u2000", "\\u2001",
     "\\u2002", "\\u2003", "\\u2004", "\\u2005", "\\u2006", "\\u2007",
     "\\u2008", "\\u2009", "\\u200A", "\\u202F", "\\u205F", "\\u3000",
     "\\uFEFF"}
LineTerminators == {"\n", "\r", "\\u2028", "\\u2029"}

IsWhitespace(c) == c \in WhiteSpaceChars \cup LineTerminators

RECURSIVE TrimStart(_)
TrimStart(s) ==
    IF s # <<>> /\ IsWhitespace(Head(s)) THEN TrimStart(Tail(s)) ELSE s

RECURSIVE TrimEnd(_)
TrimEnd(s) ==
    IF s # <<>> /\ IsWhitespace(s[Len(s)])
    THEN TrimEnd(SubSeq(s, 1, Len(s) - 1)) ELSE s

\* s.trim()
Trim(s) == TrimEnd(TrimStart(s))

\* s.replace(/\n/g, ' ')
ReplaceNewlines(s) == [i \in 1..Len(s) |-> IF s[i] = "\n" THEN " " ELSE s[i]]

\* localStorage values and JSON texts: [json |-> v] is the JSON text of v,
\* [raw |-> s] is a text that is not JSON, Null is a key that is not there.
\* JSON.stringify of a value that is not undefined
JSONstringify(v) == [json |-> v]
\* the text localStorage.setItem(key, JSON.stringify(v)) stores for an object or
\* undefined: JSON.stringify(undefined) is undefined, stored as "undefined"
StoredText(v) == IF v = Undefined THEN [raw |-> "undefined"] ELSE JSONstringify(v)
IsJSON(t) == "json" \in DOMAIN t
JSONparse(t) == t.json
\* ToBoolean of the values the model holds: null, undefined and the empty
\* string (a text [raw |-> ""] or a string value Str("")) are falsy
Truthy(t) == t # Null /\ t # Undefined /\ t # [raw |-> ""] /\ t # Str("")

-----------------------------------------------------------------------------
(* Messages *)

ApiKeyMissingMsg == "API Key is missing. Please ensure process.env.API_KEY is set."
NoContentMsg == "Please provide some text or images to analyze."
NoResponseMsg == "No response received from the model."
AnalyzeFailedMsg == "Failed to analyze patterns. Please try again."
FallbackMsg == "Something went wrong during analysis."
\* the message of the exception localStorage.setItem throws over quota: its
\* wording is the browser's, and Chrome's names the key
Browsers == {"chrome", "firefox"}
HistoryKey == "patternMirrorHistory"
ProfileKey == "patternMirrorProfile"
QuotaMsg(b, key) ==
    IF b = "chrome"
    THEN IF key = HistoryKey
         THEN "Failed to execute 'setItem' on 'Storage': Setting the value of 'patternMirrorHistory' exceeded the quota."
         ELSE "Failed to execute 'setItem' on 'Storage': Setting the value of 'patternMirrorProfile' exceeded the quota."
    ELSE "The quota has been exceeded."
NoPastEntriesText == "No past entries. This is the first one."
NoProfileText == "None yet. You are building the first version of this profile."
NoTextMarker == "(No text provided for this entry)"
JournalCaption == "Here are photos of handwritten journal entries:"
SpaceCaption == "Here are photos of my room/workspace/environment:"

\* new Error(msg)
Error(msg) == [message |-> msg]
\* the ProgressEvent a FileReader hands to reader.onerror: it has no message
ProgressEvent == [type |-> "error"]
\* the DOMException of a localStorage.setItem over quota
QuotaExceededError(b, key) ==
    [name |-> "QuotaExceededError", message |-> QuotaMsg(b, key)]

-----------------------------------------------------------------------------
(* Prompt builder: analyzePatterns up to the request *)

\* new Date(e.timestamp).toLocaleDateString(): the calendar day of a timestamp
ToLocaleDateString(ts) == ts \div TicksPerDay

\* a variant that marks a text of exactly the bound as truncated
SnippetMarkAtBound(text) ==
    ReplaceNewlines(Slice(text, 0, SnippetBound))
        \o (IF Len(text) >= SnippetBound THEN <<".", ".", ".">> ELSE <<>>)

\* `${snippet}${e.text.length > 400 ? '...' : ''}` with
\* snippet = e.text.slice(0, 400).replace(/\n/g, ' ')
Snippet(text) ==
    ReplaceNewlines(Slice(text, 0, SnippetBound))
        \o (IF Len(text) > SnippetBound THEN <<".", ".", ".">> ELSE <<>>)

\* the callback of .map((e, index) => ...): one rendered past entry
RenderEntry(e, index) ==
    [label |-> index + 1,
     date |-> ToLocaleDateString(e.timestamp),
     snippet |-> Snippet(e.text)]

\* a variant that keeps the insertion order
SelectOldestFirst(pastEntries) == SliceLast(pastEntries, HistoryWindow)

\* pastEntries.slice(-10).reverse()
SelectRecent(pastEntries) == Reverse(SliceLast(pastEntries, HistoryWindow))

\* const pastEntriesBlock = ... : the rendered entries, or the marker
pastEntriesBlock(pastEntries) ==
    IF Len(pastEntries) > 0
    THEN [entries |-> [i \in 1..Len(SelectRecent(pastEntries)) |->
                          RenderEntry(SelectRecent(pastEntries)[i], i - 1)]]
    ELSE [raw |-> NoPastEntriesText]

\* const previousProfileText = ...
previousProfileText(previousProfile) ==
    IF Truthy(previousProfile)
    THEN JSONstringify(previousProfile)
    ELSE [raw |-> NoProfileText]

\* parts.push({ text: `PAST PATTERN SIGNALS ... CURRENT ENTRY TO ANALYZE:` })
ContextPart(pastEntries, previousProfile) ==
    [text |-> [pastEntriesBlock |-> pastEntriesBlock(pastEntries),
               previousProfileText |-> previousProfileText(previousProfile)]]

\* a variant that sends the text without the white space at its ends
TextPartTrimmed(text) ==
    IF Trim(text) # <<>>
    THEN [text |-> [label |-> "JOURNAL ENTRIES/NOTES:", body |-> Trim(text)]]
    ELSE [text |-> [label |-> NoTextMarker]]

\* the part for the journal text, or its marker
TextPart(text) ==
    IF Trim(text) # <<>>
    THEN [text |-> [label |-> "JOURNAL ENTRIES/NOTES:", body |-> text]]
    ELSE [text |-> [label |-> NoTextMarker]]

CaptionPart(caption) == [text |-> [label |-> caption]]

\* the part fileToGenerativePart resolves with
GenerativePart(file) ==
    [inlineData |-> [data |-> [base64 |-> file.name], mimeType |-> file.type]]

\* journalText.trim().length === 0 && journalPhotos.length === 0 && ...
NoContent(text, jFiles, sFiles) ==
    Len(Trim(text)) = 0 /\ Len(jFiles) = 0 /\ Len(sFiles) = 0

-----------------------------------------------------------------------------
(* Data the model runs on *)

\* a File object: uid is its identity, two objects of the same file on disk
\* have the same name and type and different uids
File(n, uid) == [name |-> n, type |-> "image/png", uid |-> uid]
\* FileUpload: { file, previewUrl: URL.createObjectURL(file) }; every call of
\* createObjectURL makes a new URL
Uploaded(f) == [file |-> f, previewUrl |-> [blob |-> f.uid]]
FileNames == {"a.png"}

\* the texts the user types: none, white space only (a space, a form feed, a
\* no-break space, a line feed), and a text between white space
UserTexts ==
    << <<>>, <<" ", "\f", "\\u00A0", "\n">>, <<" ", "a", "\n", "b", " ">> >>

Profile(tag) ==
    [summary |-> Str(tag),
     tendencies |-> Arr(<<tag>>),
     typical_triggers |-> Arr(<<>>),
     typical_coping_styles |-> Arr(<<tag>>),
     last_updated |-> Str(tag)]

Without(obj, f) == [g \in DOMAIN obj \ {f} |-> obj[g]]

\* a response object with every field of RESPONSE_SCHEMA
FullResponse(p) ==
    [overview |-> Str("overview"),
     emotional_patterns |-> Arr(<<"e">>),
     environment_patterns |-> Arr(<<>>),
     behavioral_loops |-> Arr(<<"b">>),
     triggers |-> Arr(<<"t">>),
     recurring_themes |-> Arr(<<"r">>),
     core_pursuits_and_why |-> Str("c"),
     reflection_prompts |-> Arr(<<"q">>),
     pattern_profile |-> p]

TopLevelFields ==
    {"overview", "emotional_patterns", "environment_patterns", "behavioral_loops",
     "triggers", "recurring_themes", "core_pursuits_and_why", "reflection_prompts",
     "pattern_profile"}
ProfileFields ==
    {"summary", "tendencies", "typical_triggers", "typical_coping_styles",
     "last_updated"}
StringFields == {"overview", "core_pursuits_and_why", "summary", "last_updated"}

\* what ai.models.generateContent may come back with
Responses ==
    << [rejected |-> TRUE],                                    \* transport failure
       [text |-> Undefined],                                   \* no text
       [text |-> [raw |-> "{oops"]],                           \* not JSON
       [text |-> [json |-> Null]],                             \* the JSON text null
       [text |-> [json |-> FullResponse(Profile("A"))]],
       [text |-> [json |-> Without(FullResponse(Profile("A")), "pattern_profile")]],
       [text |-> [json |-> FullResponse(Without(Profile("A"), "last_updated"))]],
       [text |-> [json |-> [FullResponse(Profile("A")) EXCEPT !.overview = Arr(<<"o">>)]]],
       [text |-> [json |-> FullResponse(Str(""))]] >>              \* pattern_profile: ""

\* an entry written by an earlier session
OldEntry(k, text) ==
    [id |-> 0 - k, timestamp |-> 0 - k, text |-> text,
     journalPhotoCount |-> 0, spacePhotoCount |-> 1]

\* what localStorage may hold when the page is opened: the two records
InitialRecords ==
    << <<Null, Null>>,
       <<[json |-> << OldEntry(1, <<"o">>) >>], [json |-> Profile("old")]>>,
       <<[json |-> << OldEntry(1, <<"o">>) >>], [raw |-> "{oops"]>>,
       <<[raw |-> "[{oops"], [json |-> Profile("old")]>>,
       <<[raw |-> "[{oops"], [raw |-> "{oops"]>> >>

-----------------------------------------------------------------------------
(* The state after construction *)

Idle == [isLoading |-> FALSE, error |-> Null, result |-> Null]
\* a variant that keeps an error on display while loading
RequestingWithError == [isLoading |-> TRUE, error |-> Str("previous"), result |-> Null]
Requesting == [isLoading |-> TRUE, error |-> Null, result |-> Null]

\* the state no analysis has touched yet
InitialState(state) == state = Idle
Succeeded(analysis) == [isLoading |-> FALSE, error |-> Null, result |-> analysis]
\* a variant without the fallback message
FailedNoFallback(err) ==
    [isLoading |-> FALSE,
     error |-> IF "message" \in DOMAIN err THEN Str(err.message) ELSE Undefined,
     result |-> Null]
\* a variant whose catch block leaves isLoading set
FailedStillLoading(err) ==
    [isLoading |-> TRUE,
     error |-> IF "message" \in DOMAIN err /\ err.message # ""
               THEN Str(err.message) ELSE Str(FallbackMsg),
     result |-> Null]

\* error: err.message || "Something went wrong during analysis."
Failed(err) ==
    [isLoading |-> FALSE,
     error |-> IF "message" \in DOMAIN err /\ err.message # ""
               THEN Str(err.message) ELSE Str(FallbackMsg),
     result |-> Null]

Init ==
    /\ apiKey \in BOOLEAN
    /\ phase = "mount"
    /\ \E i \in 1..Len(InitialRecords) :
          /\ storedHistory = InitialRecords[i][1]
          /\ storedProfile = InitialRecords[i][2]
    /\ journalText = <<>>
    /\ journalPhotos = <<>>
    /\ spacePhotos = <<>>
    /\ history = <<>>
    /\ profile = Null
    /\ analysisState = Idle
    /\ calls = <<>>
    /\ nextId = 0
    /\ clock = 0
    /\ browser \in Browsers
    /\ nextFile = 0

\* the promise of analyzePatterns has settled and handleAnalyze has not gone
\* on yet: it goes on in a microtask, before any other event is handled
MicrotaskPending == \E i \in 1..Len(calls) : calls[i].pc \in {"rejected", "resolved"}

Ready == phase = "ready" /\ ~MicrotaskPending

\* Wall-clock time passes on its own; new Date() reads it.
Tick ==
    /\ clock < MaxTicks
    /\ clock' = clock + 1
    /\ UNCHANGED <<apiKey, browser, nextFile, phase, storedHistory, storedProfile, journalText,
                   journalPhotos, spacePhotos, history, profile, analysisState,
                   calls, nextId>>

-----------------------------------------------------------------------------
(* Load from localStorage on mount *)

\* the state the mount effect leaves: JSON.parse of the history record throws
\* before anything is set; JSON.parse of the profile record throws after
\* setHistory has been called
LoadedHistory(sh, sp, h) ==
    IF Truthy(sh) /\ IsJSON(sh) THEN JSONparse(sh) ELSE h
LoadedProfile(sh, sp, p) ==
    IF Truthy(sh) /\ ~IsJSON(sh) THEN p
    ELSE IF Truthy(sp) /\ IsJSON(sp) THEN JSONparse(sp) ELSE p

Load ==
    /\ phase = "mount"
    /\ phase' = "ready"
    /\ history' = LoadedHistory(storedHistory, storedProfile, history)
    /\ profile' = LoadedProfile(storedHistory, storedProfile, profile)
    /\ UNCHANGED <<apiKey, browser, nextFile, storedHistory, storedProfile, journalText, journalPhotos,
                   spacePhotos, analysisState, calls, nextId, clock>>

-----------------------------------------------------------------------------
(* The form *)

\* onChange={(e) => setJournalText(e.target.value.slice(0, 10000))}
setJournalText ==
    /\ Ready
    /\ \E i \in 1..Len(UserTexts) :
          /\ UserTexts[i] # journalText
          /\ journalText' = Slice(UserTexts[i], 0, TextLimit)
    /\ UNCHANGED <<apiKey, browser, nextFile, phase, storedHistory, storedProfile, journalPhotos,
                   spacePhotos, history, profile, analysisState, calls, nextId,
                   clock>>

\* FileUpload.handleFileSelect: [...files, ...newFiles].slice(0, maxFiles)
SelectFiles(files, newFiles) == Slice(files \o newFiles, 0, maxFiles)

\* FileUpload.removeFile: files.filter((_, index) => index !== indexToRemove)
RemoveFileAt(files, k) == SubSeq(files, 1, k - 1) \o SubSeq(files, k + 1, Len(files))

handleFileSelect ==
    /\ Ready
    /\ nextFile < MaxSelected
    /\ nextFile' = nextFile + 1
    /\ \E n \in FileNames :
          \/ /\ Len(journalPhotos) < MaxPhotos
             /\ journalPhotos' =
                   SelectFiles(journalPhotos, <<Uploaded(File(n, nextFile))>>)
             /\ UNCHANGED spacePhotos
          \/ /\ Len(spacePhotos) < MaxPhotos
             /\ spacePhotos' =
                   SelectFiles(spacePhotos, <<Uploaded(File(n, nextFile))>>)
             /\ UNCHANGED journalPhotos
    /\ UNCHANGED <<apiKey, browser, phase, storedHistory, storedProfile, journalText, history,
                   profile, analysisState, calls, nextId, clock>>

removeFile ==
    /\ Ready
    /\ \/ \E k \in 1..Len(journalPhotos) :
             /\ journalPhotos' = RemoveFileAt(journalPhotos, k)
             /\ UNCHANGED spacePhotos
       \/ \E k \in 1..Len(spacePhotos) :
             /\ spacePhotos' = RemoveFileAt(spacePhotos, k)
             /\ UNCHANGED journalPhotos
    /\ UNCHANGED <<apiKey, browser, nextFile, phase, storedHistory, storedProfile, journalText, history,
                   profile, analysisState, calls, nextId, clock>>

-----------------------------------------------------------------------------
(* analyzePatterns: from the call to the request *)

\* A pending invocation holds the values its closure holds (journalText,
\* jFiles, sFiles, history, profile), where analyzePatterns stands (pc, idx,
\* parts), what it has done so far (reads: files handed to a FileReader, sent:
\* generateContent was called) and how it settled (response, error, result).
Progress(pc, parts, idx, error, reads, sent) ==
    [pc |-> pc, parts |-> parts, idx |-> idx, error |-> error, reads |-> reads,
     sent |-> sent]

\* lines 209-225: the no-content check, then the request
AfterSpacePhotosUnchecked(parts, text, jFiles, sFiles, reads) ==
    Progress("model", parts, 0, Null, reads, TRUE)
AfterSpacePhotos(parts, text, jFiles, sFiles, reads) ==
    IF NoContent(text, jFiles, sFiles)
    THEN Progress("rejected", parts, 0, Error(NoContentMsg), reads, FALSE)
    ELSE Progress("model", parts, 0, Null, reads, TRUE)

\* lines 200-207: the caption and the first read of a space photo
AfterJournalPhotos(parts, text, jFiles, sFiles, reads) ==
    IF Len(sFiles) > 0
    THEN Progress("readSpace", Append(parts, CaptionPart(SpaceCaption)), 1, Null,
                  reads + 1, FALSE)
    ELSE AfterSpacePhotos(parts, text, jFiles, sFiles, reads)

\* lines 149-198: the context block, the text part, the caption and the first
\* read of a journal photo
BuildParts(text, jFiles, sFiles, pastEntries, previousProfile) ==
    IF Len(jFiles) > 0
    THEN Progress("readJournal",
                  <<ContextPart(pastEntries, previousProfile), TextPart(text),
                    CaptionPart(JournalCaption)>>, 1, Null, 1, FALSE)
    ELSE AfterJournalPhotos(<<ContextPart(pastEntries, previousProfile),
                              TextPart(text)>>, text, jFiles, sFiles, 0)

\* analyzePatterns up to its first await (or its throw)
AnalyzeStartContentFirst(key, text, jFiles, sFiles, pastEntries, previousProfile) ==
    IF NoContent(text, jFiles, sFiles)
    THEN Progress("rejected", <<>>, 0, Error(NoContentMsg), 0, FALSE)
    ELSE IF ~key
    THEN Progress("rejected", <<>>, 0, Error(ApiKeyMissingMsg), 0, FALSE)
    ELSE BuildParts(text, jFiles, sFiles, pastEntries, previousProfile)
AnalyzeStart(key, text, jFiles, sFiles, pastEntries, previousProfile) ==
    IF ~key
    THEN Progress("rejected", <<>>, 0, Error(ApiKeyMissingMsg), 0, FALSE)
    ELSE BuildParts(text, jFiles, sFiles, pastEntries, previousProfile)

\* f.file of each selected photo
FilesOf(photos) == [i \in 1..Len(photos) |-> photos[i].file]

\* the values the handler of the current render closes over
Closure ==
    [journalText |-> journalText,
     jFiles |-> FilesOf(journalPhotos),
     sFiles |-> FilesOf(spacePhotos),
     history |-> history,
     profile |-> profile]

Merge(a, b) ==
    [f \in DOMAIN a \cup DOMAIN b |-> IF f \in DOMAIN b THEN b[f] ELSE a[f]]

RemoveAt(s, k) == SubSeq(s, 1, k - 1) \o SubSeq(s, k + 1, Len(s))

\* a variant that does not look at the form
isAnalyzeDisabledLoadingOnly == analysisState.isLoading

\* a variant that does not look at isLoading
isAnalyzeDisabledNoLoading ==
    Len(Trim(journalText)) = 0 /\ Len(journalPhotos) = 0 /\ Len(spacePhotos) = 0

\* (journalText.trim().length === 0 && journalPhotos.length === 0 &&
\*  spacePhotos.length === 0) || analysisState.isLoading
isAnalyzeDisabled ==
    \/ (Len(Trim(journalText)) = 0 /\ Len(journalPhotos) = 0 /\ Len(spacePhotos) = 0)
    \/ analysisState.isLoading

\* handleAnalyze, up to the await: setAnalysisState, then analyzePatterns runs
\* to its first await or throws.  The handler has no guard of its own.
handleAnalyze ==
    /\ Ready
    /\ nextId + Len(calls) < MaxCalls
    /\ Len(calls) < MaxInFlight
    /\ analysisState' = Requesting
    /\ calls' = Append(calls,
                       Merge(Merge(Closure, [response |-> Null, result |-> Null]),
                             AnalyzeStart(apiKey, journalText, FilesOf(journalPhotos),
                                          FilesOf(spacePhotos), history, profile)))
    /\ UNCHANGED <<apiKey, browser, nextFile, phase, storedHistory, storedProfile, journalText,
                   journalPhotos, spacePhotos, history, profile, nextId, clock>>

\* a variant that pushes the first file of the batch at every turn
AfterReadFirstFile(c) ==
    LET parts == Append(c.parts,
                        GenerativePart(IF c.pc = "readJournal" THEN c.jFiles[1]
                                       ELSE c.sFiles[1]))
        files == IF c.pc = "readJournal" THEN c.jFiles ELSE c.sFiles
    IN  IF c.idx < Len(files)
        THEN Progress(c.pc, parts, c.idx + 1, Null, c.reads + 1, FALSE)
        ELSE IF c.pc = "readJournal"
        THEN AfterJournalPhotos(parts, c.journalText, c.jFiles, c.sFiles, c.reads)
        ELSE AfterSpacePhotos(parts, c.journalText, c.jFiles, c.sFiles, c.reads)

\* after `await fileToGenerativePart(file)` resolved: push the part, go on
AfterRead(c) ==
    LET parts == Append(c.parts,
                        GenerativePart(IF c.pc = "readJournal" THEN c.jFiles[c.idx]
                                       ELSE c.sFiles[c.idx]))
        files == IF c.pc = "readJournal" THEN c.jFiles ELSE c.sFiles
    IN  IF c.idx < Len(files)
        THEN Progress(c.pc, parts, c.idx + 1, Null, c.reads + 1, FALSE)
        ELSE IF c.pc = "readJournal"
        THEN AfterJournalPhotos(parts, c.journalText, c.jFiles, c.sFiles, c.reads)
        ELSE AfterSpacePhotos(parts, c.journalText, c.jFiles, c.sFiles, c.reads)

\* a FileReader finishes: reader.onloadend resolves with the part,
\* reader.onerror rejects with the event, which analyzePatterns lets through
ReadImage ==
    /\ Ready
    /\ \E i \in 1..Len(calls) :
          /\ calls[i].pc \in {"readJournal", "readSpace"}
          /\ \/ calls' = [calls EXCEPT ![i] = Merge(calls[i], AfterRead(calls[i]))]
             \/ calls' = [calls EXCEPT ![i] =
                             Merge(calls[i], [pc |-> "rejected", error |-> ProgressEvent])]
    /\ UNCHANGED <<apiKey, browser, nextFile, phase, storedHistory, storedProfile, journalText,
                   journalPhotos, spacePhotos, history, profile, analysisState,
                   nextId, clock>>

-----------------------------------------------------------------------------
(* analyzePatterns: the response *)

AnalysisFields == TopLevelFields \ {"pattern_profile"}

\* lines 213-253: what analyzePatterns returns, or the error it throws.  Every
\* throw inside the try block is replaced by the one generic error.
AnalyzeResult(response) ==
    IF "rejected" \in DOMAIN response THEN [error |-> Error(AnalyzeFailedMsg)]
    ELSE IF ~Truthy(response.text) THEN [error |-> Error(AnalyzeFailedMsg)]
    ELSE IF ~IsJSON(response.text) THEN [error |-> Error(AnalyzeFailedMsg)]
    ELSE IF JSONparse(response.text) = Null THEN [error |-> Error(AnalyzeFailedMsg)]
    ELSE [analysis |-> [f \in AnalysisFields |-> Get(JSONparse(response.text), f)],
          pattern_profile |-> Get(JSONparse(response.text), "pattern_profile")]

\* the promise of analyzePatterns settles
Settled(response) ==
    IF "error" \in DOMAIN AnalyzeResult(response)
    THEN [pc |-> "rejected", error |-> AnalyzeResult(response).error,
          response |-> response]
    ELSE [pc |-> "resolved", result |-> AnalyzeResult(response),
          response |-> response]

\* generateContent settles
ModelSettles ==
    /\ Ready
    /\ \E i \in 1..Len(calls), r \in 1..Len(Responses) :
          /\ calls[i].pc = "model"
          /\ calls' = [calls EXCEPT ![i] = Merge(calls[i], Settled(Responses[r]))]
    /\ UNCHANGED <<apiKey, browser, nextFile, phase, storedHistory, storedProfile, journalText,
                   journalPhotos, spacePhotos, history, profile, analysisState,
                   nextId, clock>>

-----------------------------------------------------------------------------
(* handleAnalyze: after the await *)

\* the catch block of handleAnalyze, for a throw of analyzePatterns
CatchRejected ==
    \E i \in 1..Len(calls) :
        /\ calls[i].pc = "rejected"
        /\ analysisState' = Failed(calls[i].error)
        /\ calls' = RemoveAt(calls, i)
        /\ UNCHANGED <<apiKey, browser, nextFile, phase, storedHistory, storedProfile, journalText,
                       journalPhotos, spacePhotos, history, profile, nextId, clock>>

\* a variant that reads the form as it is when the response arrives
NewEntryFromForm(c) ==
    [id |-> nextId,
     timestamp |-> clock,
     text |-> Trim(journalText),
     journalPhotoCount |-> Len(journalPhotos),
     spacePhotoCount |-> Len(spacePhotos)]

\* const newEntry: JournalEntry = { ... }
NewEntry(c) ==
    [id |-> nextId,
     timestamp |-> clock,
     text |-> Trim(c.journalText),
     journalPhotoCount |-> Len(c.jFiles),
     spacePhotoCount |-> Len(c.sFiles)]

\* a variant that keeps the new entry only
UpdatedHistoryReplaced(h, newEntry) == <<newEntry>>

\* const updatedHistory = [...history, newEntry]
UpdatedHistory(h, newEntry) == Append(h, newEntry)

\* setProfile(pattern_profile)
UpdatedProfileMerged(old, new) ==
    IF old \in {Null, Undefined} \/ new \in {Null, Undefined} THEN new
    ELSE Merge(new, old)
UpdatedProfile(old, new) == new

\* what the two localStorage.setItem calls do: both succeed, the first one
\* throws, or the second one throws
SaveOutcomes == {"ok", "historyThrows", "profileThrows"}

\* lines 56-80: the state handleAnalyze leaves when analyzePatterns resolved.
\* A throw of setItem is caught by the catch block, after setHistory,
\* setProfile and setAnalysisState have been called.
AfterAwait(c, save) ==
    [history |-> UpdatedHistory(c.history, NewEntry(c)),
     profile |-> UpdatedProfile(c.profile, c.result.pattern_profile),
     storedHistory |-> IF save = "historyThrows" THEN storedHistory
                       ELSE JSONstringify(UpdatedHistory(c.history, NewEntry(c))),
     storedProfile |-> IF save = "ok" THEN StoredText(c.result.pattern_profile)
                       ELSE storedProfile,
     analysisState |-> IF save = "ok" THEN Succeeded(c.result.analysis)
                       ELSE Failed(QuotaExceededError(
                                browser,
                                IF save = "historyThrows" THEN HistoryKey
                                ELSE ProfileKey))]

ContinueAfterAwait ==
    \E i \in 1..Len(calls), save \in SaveOutcomes :
        /\ calls[i].pc = "resolved"
        /\ history' = AfterAwait(calls[i], save).history
        /\ profile' = AfterAwait(calls[i], save).profile
        /\ storedHistory' = AfterAwait(calls[i], save).storedHistory
        /\ storedProfile' = AfterAwait(calls[i], save).storedProfile
        /\ analysisState' = AfterAwait(calls[i], save).analysisState
        /\ nextId' = nextId + 1
        /\ calls' = RemoveAt(calls, i)
        /\ UNCHANGED <<apiKey, browser, nextFile, phase, journalText, journalPhotos, spacePhotos, clock>>

-----------------------------------------------------------------------------
(* Clear History *)

\* a variant that forgets the persisted records
ClearMemoryOnly(confirmed) ==
    /\ Ready
    /\ Len(history) > 0
    /\ IF confirmed
       THEN /\ history' = <<>>
            /\ profile' = Null
            /\ UNCHANGED <<storedHistory, storedProfile>>
       ELSE UNCHANGED <<history, profile, storedHistory, storedProfile>>
    /\ UNCHANGED <<apiKey, browser, nextFile, phase, journalText, journalPhotos, spacePhotos,
                   analysisState, calls, nextId, clock>>

\* the body of clearHistory, for what confirm() returned
Clear(confirmed) ==
    /\ Ready
    /\ Len(history) > 0
    /\ IF confirmed
       THEN /\ history' = <<>>
            /\ profile' = Null
            /\ storedHistory' = Null
            /\ storedProfile' = Null
       ELSE UNCHANGED <<history, profile, storedHistory, storedProfile>>
    /\ UNCHANGED <<apiKey, browser, nextFile, phase, journalText, journalPhotos, spacePhotos,
                   analysisState, calls, nextId, clock>>

\* the button is rendered when history.length > 0; confirm() may be declined
clearHistory == \E confirmed \in BOOLEAN : Clear(confirmed)

-----------------------------------------------------------------------------
(* The application *)

\* The application with text entries only: handleAnalyze may be invoked again
\* while earlier invocations are pending.
Next ==
    \/ Load
    \/ setJournalText
    \/ handleAnalyze
    \/ ModelSettles
    \/ CatchRejected
    \/ ContinueAfterAwait
    \/ clearHistory
    \/ Tick

Spec == Init /\ [][Next]_vars

\* no analysis of the session has succeeded yet: crypto.randomUUID() has not
\* been called
NoSuccessYet == nextId = 0

\* The application with photos: one invocation of handleAnalyze at a time,
\* until an analysis has succeeded.
AnalyzeWhenIdle == calls = <<>> /\ NoSuccessYet /\ handleAnalyze

PhotosNext ==
    \/ Load
    \/ setJournalText
    \/ handleFileSelect
    \/ removeFile
    \/ AnalyzeWhenIdle
    \/ ReadImage
    \/ ModelSettles
    \/ CatchRejected
    \/ ContinueAfterAwait
    \/ clearHistory
    \/ Tick

\* it starts from a browser that holds no records
PhotosInit == Init /\ storedHistory = Null /\ storedProfile = Null

PhotosSpec == PhotosInit /\ [][PhotosNext]_vars

-----------------------------------------------------------------------------
(* The prompt builder on long histories *)

\* a text of n characters with line feeds at the places nl
LongText(n, nl) == [i \in 1..n |-> IF i \in nl THEN "\n" ELSE "x"]

\* entry texts around the snippet bound, with and without line feeds
PastTexts ==
    << <<"a", "\n", "b">>,
       LongText(SnippetBound - 1, {}),
       LongText(SnippetBound, {2}),
       LongText(SnippetBound + 1, {}),
       LongText(SnippetBound + 2, {3, SnippetBound + 1}) >>

\* a history of n entries written by earlier sessions, oldest first; the
\* texts go through PastTexts, starting at offset off
PastHistory(n, off) ==
    [i \in 1..n |->
        [id |-> i - n - 1,
         timestamp |-> i - n - 1,
         text |-> PastTexts[((i + off) % Len(PastTexts)) + 1],
         journalPhotoCount |-> i % 2,
         spacePhotoCount |-> 0]]

\* the page is opened on a stored history of up to MaxPast entries
PromptInit ==
    /\ apiKey = TRUE
    /\ phase = "mount"
    /\ \E n \in 0..MaxPast, off \in 0..(Len(PastTexts) - 1) :
          storedHistory = JSONstringify(PastHistory(n, off))
    /\ storedProfile \in {Null, JSONstringify(Profile("old"))}
    /\ journalText = <<>>
    /\ journalPhotos = <<>>
    /\ spacePhotos = <<>>
    /\ history = <<>>
    /\ profile = Null
    /\ analysisState = Idle
    /\ calls = <<>>
    /\ nextId = 0
    /\ clock = 0
    /\ browser \in Browsers
    /\ nextFile = 0

AnalyzeAlone == calls = <<>> /\ handleAnalyze

PromptNext ==
    \/ Load
    \/ setJournalText
    \/ AnalyzeAlone
    \/ CatchRejected
    \/ Tick

PromptSpec == PromptInit /\ [][PromptNext]_vars

-----------------------------------------------------------------------------
(* The application as the page drives it *)

\* <button onClick={handleAnalyze} disabled={isAnalyzeDisabled}>: a click
\* reaches the handler only while the button is enabled
Click == ~isAnalyzeDisabled /\ handleAnalyze

UINext ==
    \/ Load
    \/ setJournalText
    \/ Click
    \/ ModelSettles
    \/ CatchRejected
    \/ ContinueAfterAwait
    \/ clearHistory
    \/ Tick

UISpec == Init /\ [][UINext]_vars

-----------------------------------------------------------------------------
(* The request builder on batches of photos *)

BatchNames == {"a.png", "b.png"}

\* the batches of up to MaxBatch photos the user may have selected
Batches == UNION {[1..n -> BatchNames] : n \in 0..MaxBatch}

\* the photos of a batch: the File objects handed out from number first on
PhotosOf(batch, first) ==
    [i \in 1..Len(batch) |-> Uploaded(File(batch[i], first + i - 1))]

\* the page after mount, with a text typed and photos selected
PartsInit ==
    /\ apiKey = TRUE
    /\ phase = "ready"
    /\ storedHistory = Null
    /\ storedProfile = Null
    /\ \/ \E i \in 1..Len(UserTexts) : journalText = UserTexts[i]
       \/ journalText = LongText(SnippetBound + 1, {3})
    /\ \E jb \in Batches, sb \in Batches :
          /\ journalPhotos = PhotosOf(jb, 0)
          /\ spacePhotos = PhotosOf(sb, Len(jb))
          /\ nextFile = Len(jb) + Len(sb)
    /\ browser \in Browsers
    /\ history = <<>>
    /\ profile = Null
    /\ analysisState = Idle
    /\ calls = <<>>
    /\ nextId = 0
    /\ clock = 0

PartsNext ==
    \/ AnalyzeAlone
    \/ ReadImage
    \/ CatchRejected
    \/ Tick

PartsSpec == PartsInit /\ [][PartsNext]_vars

\* The page opened in a browser that holds no records.
FreshUISpec == PhotosInit /\ [][UINext]_vars

\* The page with photos, from a browser that holds no records: the button is
\* clicked until an analysis has succeeded.
ClickOnce == NoSuccessYet /\ Click

UIPhotosNext ==
    \/ Load
    \/ setJournalText
    \/ handleFileSelect
    \/ removeFile
    \/ ClickOnce
    \/ ReadImage
    \/ ModelSettles
    \/ CatchRejected
    \/ ContinueAfterAwait
    \/ clearHistory
    \/ Tick

UIPhotosSpec == PhotosInit /\ [][UIPhotosNext]_vars

\* The first analysis of a session: the button is clicked while the state is
\* still the initial one.
FirstClick == InitialState(analysisState) /\ Click

LiveNext ==
    \/ Load
    \/ setJournalText
    \/ handleFileSelect
    \/ removeFile
    \/ FirstClick
    \/ ReadImage
    \/ ModelSettles
    \/ CatchRejected
    \/ ContinueAfterAwait
    \/ clearHistory
    \/ Tick

\* The page when every image read and every model call settles and the event
\* loop runs every continuation: a FileReader that stays pending, a request
\* that never returns and a starved microtask are left out.
LiveSpec ==
    /\ PhotosInit
    /\ [][LiveNext]_vars
    /\ WF_vars(ReadImage)
    /\ WF_vars(ModelSettles)
    /\ WF_vars(CatchRejected)
    /\ WF_vars(ContinueAfterAwait)

-----------------------------------------------------------------------------
(* What the claims speak of *)

\* this step is the last one of the pending invocation i: handleAnalyze
\* returns, through its catch block or at the end of its try block
Finishes(i) ==
    /\ i \in 1..Len(calls)
    /\ calls[i].pc \in {"rejected", "resolved"}
    /\ calls' = RemoveAt(calls, i)

InFailed(state) == ~state.isLoading /\ state.error # Null /\ state.result = Null
InSucceeded(state) == ~state.isLoading /\ state.error = Null /\ state.result # Null

\* RESPONSE_SCHEMA: the type a field is declared with
HasType(v, f) == IF f \in StringFields THEN "str" \in DOMAIN v ELSE "arr" \in DOMAIN v
ConformsProfile(p) == \A f \in ProfileFields : f \in DOMAIN p /\ HasType(p[f], f)
Conforms(json) ==
    \A f \in TopLevelFields :
        /\ f \in DOMAIN json
        /\ IF f = "pattern_profile" THEN ConformsProfile(json[f])
           ELSE HasType(json[f], f)

\* the response is JSON text
ParsesAsJSON(response) ==
    /\ "text" \in DOMAIN response
    /\ Truthy(response.text)
    /\ IsJSON(response.text)

\* a record of localStorage that JSON.parse rejects
Malformed(record) == Truthy(record) /\ ~IsJSON(record)

-----------------------------------------------------------------------------
(* C1..C10 *)

\* C1: a call that ends in Failed leaves the in-memory history and profile
\* and the two persisted records as they were: the step in which handleAnalyze
\* ends in Failed changes none of the four.
C1_FailedChangesNothing ==
    [][\A i \in 1..Len(calls) :
          (Finishes(i) /\ InFailed(analysisState'))
             => UNCHANGED <<history, profile, storedHistory, storedProfile>>]_vars

\* C2: on every transition to Succeeded, history is the history the call
\* started from with exactly one new entry appended at the end, and the
\* profile is exactly the pattern_profile of the model's response.
C2_AtomicSuccess ==
    [][\A i \in 1..Len(calls) :
          (Finishes(i) /\ InSucceeded(analysisState'))
             => /\ Len(history') = Len(calls[i].history) + 1
                /\ SubSeq(history', 1, Len(calls[i].history)) = calls[i].history
                /\ \A k \in 1..Len(calls[i].history) :
                      history'[Len(history')].id # calls[i].history[k].id
                /\ profile' = Get(JSONparse(calls[i].response.text), "pattern_profile")]_vars

\* C2 witness: a call that started from one entry and the old profile has
\* succeeded
C2_Witness ==
    /\ InSucceeded(analysisState)
    /\ Len(history) = 2
    /\ history[1] = OldEntry(1, <<"o">>)
    /\ profile = Profile("A")

\* C3: while an analysis is in flight, a second invocation of handleAnalyze
\* sends no second request to the model.
C3_SingleFlight ==
    [][(analysisState.isLoading /\ Len(calls) > 0 /\ Len(calls') = Len(calls) + 1)
          => ~calls'[Len(calls')].sent]_vars

\* C4: a response that parses as JSON but lacks a required field, or has one
\* of the wrong type, makes the call end in Failed with nothing accepted: no
\* result, no new entry, no new profile.
C4_SchemaRejected ==
    [][\A i \in 1..Len(calls) :
          (/\ Finishes(i)
           /\ calls[i].response # Null
           /\ ParsesAsJSON(calls[i].response)
           /\ ~Conforms(JSONparse(calls[i].response.text)))
             => /\ InFailed(analysisState')
                /\ history' = history
                /\ profile' = profile]_vars

\* C5: when either persisted record is malformed, load leaves an empty
\* history and no profile.
C5_LoadAllOrNothing ==
    [][(phase = "mount" /\ phase' = "ready"
        /\ (Malformed(storedHistory) \/ Malformed(storedProfile)))
          => (history' = <<>> /\ profile' = Null)]_vars

\* C6: after a successful model response the call ends in Succeeded with the
\* analysis displayed, also when a durable write throws.
C6_SaveFailureSwallowed ==
    [][\A i \in 1..Len(calls) :
          (Finishes(i) /\ calls[i].pc = "resolved")
             => (InSucceeded(analysisState')
                 /\ analysisState'.result = calls[i].result.analysis)]_vars

\* C7, as claimed: a call with blank text and no photos never sends a request
\* and ends in Failed with the no-content message.
C7_NoContentAlwaysValidationError ==
    [][\A i \in 1..Len(calls) :
          NoContent(calls[i].journalText, calls[i].jFiles, calls[i].sFiles)
             => /\ ~calls[i].sent
                /\ calls[i].pc = "rejected"
                /\ Finishes(i) => analysisState' = Failed(Error(NoContentMsg))]_vars

\* C7, amended: a call with blank text and no photos never sends a request
\* and ends in Failed, with the no-content message when the API credential is
\* present and with the missing-credential message when it is absent.
C7_NoContentNeverSent ==
    [][\A i \in 1..Len(calls) :
          NoContent(calls[i].journalText, calls[i].jFiles, calls[i].sFiles)
             => /\ ~calls[i].sent
                /\ calls[i].pc = "rejected"
                /\ Finishes(i) =>
                      analysisState' = Failed(Error(IF apiKey THEN NoContentMsg
                                                    ELSE ApiKeyMissingMsg))]_vars

\* C7 witness: with the credential present, a call with whitespace-only text
\* and no photos has failed with the no-content message
C7_Witness ==
    /\ apiKey
    /\ calls = <<>>
    /\ journalText = UserTexts[2]
    /\ journalPhotos = <<>>
    /\ spacePhotos = <<>>
    /\ analysisState = Failed(Error(NoContentMsg))

\* C8: without the API credential every call, whatever its input, ends in
\* Failed with the missing-credential message, without a request, without
\* reading a file and without building the prompt.
C8_CredentialFirst ==
    [][~apiKey =>
          \A i \in 1..Len(calls) :
             /\ calls[i].pc = "rejected"
             /\ calls[i].error = Error(ApiKeyMissingMsg)
             /\ ~calls[i].sent
             /\ calls[i].reads = 0
             /\ Finishes(i) => analysisState' = Failed(Error(ApiKeyMissingMsg))]_vars

\* C8 witness: without the credential, a call with a photo selected has
\* failed with the missing-credential message
C8_Witness ==
    /\ ~apiKey
    /\ calls = <<>>
    /\ journalPhotos # <<>>
    /\ analysisState = Failed(Error(ApiKeyMissingMsg))

\* the context block of the request of a pending call
BlockOf(c) == c.parts[1].text.pastEntriesBlock

\* C9: the context block holds the last min(n, 10) entries of the history,
\* most recent first, and the marker for an empty history.
C9_HistoryWindow ==
    \A i \in 1..Len(calls) :
        calls[i].pc = "model" =>
            LET h == calls[i].history
                n == Len(h)
                m == IF n < HistoryWindow THEN n ELSE HistoryWindow
            IN  IF n = 0
                THEN BlockOf(calls[i]) = [raw |-> NoPastEntriesText]
                ELSE /\ "entries" \in DOMAIN BlockOf(calls[i])
                     /\ Len(BlockOf(calls[i]).entries) = m
                     /\ \A k \in 1..m :
                           /\ BlockOf(calls[i]).entries[k].label = k
                           /\ BlockOf(calls[i]).entries[k].date =
                                 ToLocaleDateString(h[n + 1 - k].timestamp)
                           /\ BlockOf(calls[i]).entries[k].snippet =
                                 Snippet(h[n + 1 - k].text)

\* C9 witness: a request was built from a history of more than 10 entries
C9_Witness ==
    \E i \in 1..Len(calls) :
        /\ calls[i].pc = "model"
        /\ Len(calls[i].history) > HistoryWindow
        /\ Len(BlockOf(calls[i]).entries) = HistoryWindow

\* the entry of the history that the k-th rendered entry of a call stands for
SourceOf(c, k) == c.history[Len(c.history) + 1 - k]

\* C10, as claimed: a text longer than the bound is rendered as its first
\* 400 characters followed by "...", a text up to the bound as it is.
C10_SnippetVerbatim ==
    \A i \in 1..Len(calls) :
        (calls[i].pc = "model" /\ Len(calls[i].history) > 0) =>
            \A k \in 1..Len(BlockOf(calls[i]).entries) :
                LET text == SourceOf(calls[i], k).text
                    snippet == BlockOf(calls[i]).entries[k].snippet
                IN  IF Len(text) > SnippetBound
                    THEN snippet = SubSeq(text, 1, SnippetBound) \o <<".", ".", ".">>
                    ELSE snippet = text

\* C10, amended: a text longer than the bound is rendered as its first 400
\* characters, each line feed among them replaced by a space, followed by
\* "..."; a text up to the bound is rendered whole, each line feed replaced
\* by a space, with no marker.
C10_SnippetTruncated ==
    \A i \in 1..Len(calls) :
        (calls[i].pc = "model" /\ Len(calls[i].history) > 0) =>
            \A k \in 1..Len(BlockOf(calls[i]).entries) :
                LET text == SourceOf(calls[i], k).text
                    snippet == BlockOf(calls[i]).entries[k].snippet
                    kept == IF Len(text) > SnippetBound THEN SnippetBound ELSE Len(text)
                IN  /\ Len(snippet) = IF Len(text) > SnippetBound THEN kept + 3 ELSE kept
                    /\ \A j \in 1..kept :
                          snippet[j] = IF text[j] = "\n" THEN " " ELSE text[j]
                    /\ \A j \in (kept + 1)..Len(snippet) : snippet[j] = "."

\* C10 witness: a request renders a text of exactly 400 characters and a
\* longer one that has a line feed
C10_Witness ==
    \E i \in 1..Len(calls) :
        /\ calls[i].pc = "model"
        /\ Len(calls[i].history) > 0
        /\ \E k \in 1..Len(BlockOf(calls[i]).entries) :
              /\ Len(SourceOf(calls[i], k).text) = SnippetBound
              /\ Len(BlockOf(calls[i]).entries[k].snippet) = SnippetBound
        /\ \E k \in 1..Len(BlockOf(calls[i]).entries) :
              /\ Len(SourceOf(calls[i], k).text) > SnippetBound
              /\ \E j \in 1..SnippetBound : SourceOf(calls[i], k).text[j] = "\n"

-----------------------------------------------------------------------------
(* C11..C20 *)

\* C11: a confirmed clear leaves the history empty, the profile absent and
\* both persisted records removed, in one step; a declined clear changes none
\* of the four.
C11_ClearAllOrNothing ==
    [][\A confirmed \in BOOLEAN :
          Clear(confirmed) =>
             IF confirmed
             THEN /\ history' = <<>>
                  /\ profile' = Null
                  /\ storedHistory' = Null
                  /\ storedProfile' = Null
             ELSE UNCHANGED <<history, profile, storedHistory, storedProfile>>]_vars

\* C11 witness: after an analysis has succeeded, a confirmed clear has emptied
\* the history (only a clear empties it again)
C11_Witness ==
    /\ nextId > 0
    /\ history = <<>>
    /\ profile = Null
    /\ storedHistory = Null
    /\ storedProfile = Null

\* every entry of h is in g, unchanged, and in the same relative order
KeepsEntries(h, g) ==
    /\ \A k \in 1..Len(h) : \E j \in 1..Len(g) : g[j] = h[k]
    /\ \A k1, k2 \in 1..Len(h) : \A j1, j2 \in 1..Len(g) :
          (k1 < k2 /\ g[j1] = h[k1] /\ g[j2] = h[k2]) => j1 < j2

\* C12: history is append-only between clears: every step other than a
\* confirmed clear keeps every entry of the history, unchanged and in the same
\* relative order.
C12_AppendOnly ==
    [][Clear(TRUE) \/ KeepsEntries(history, history')]_vars

\* C12 witness: two analyses have succeeded one after the other on top of a
\* loaded entry
C12_Witness ==
    /\ Len(history) = 3
    /\ history[1].id < 0
    /\ history[2].id < history[3].id

InIdle(state) == ~state.isLoading /\ state.error = Null /\ state.result = Null
InRequesting(state) == state.isLoading /\ state.error = Null /\ state.result = Null

\* C13: analysisState is always Idle, Requesting, Succeeded or Failed, and no
\* invocation is pending once it is Succeeded or Failed; every trigger moves
\* to Requesting with no error and no result, and Requesting is left only to
\* Succeeded or Failed.
C13_StateMachine ==
    /\ [](/\ \/ InIdle(analysisState)
             \/ InRequesting(analysisState)
             \/ InSucceeded(analysisState)
             \/ InFailed(analysisState)
          /\ (InSucceeded(analysisState) \/ InFailed(analysisState)) => calls = <<>>)
    /\ [][/\ Len(calls') > Len(calls) => InRequesting(analysisState')
          /\ (InRequesting(analysisState) /\ analysisState' # analysisState)
                => (InSucceeded(analysisState') \/ InFailed(analysisState'))]_vars

\* C13 witness: after an analysis has succeeded, a new trigger has discarded
\* its result and the state is Requesting again
C13_Witness ==
    /\ nextId > 0
    /\ InRequesting(analysisState)
    /\ calls # <<>>

\* the request of this call failed in transport, came back without text, or
\* with text that is not a JSON object
ModelCallFailed(c) == c.pc = "rejected" /\ c.response # Null

\* C14: every failure of an analysis call ends in Failed with one non-empty
\* message, an image read error included; a transport failure, an empty
\* response and a malformed response all show the same generic message.
C14_OneMessage ==
    [][\A i \in 1..Len(calls) :
          /\ (Finishes(i) /\ calls[i].pc = "rejected") => InFailed(analysisState')
          /\ (Finishes(i) /\ InFailed(analysisState')) =>
                /\ "str" \in DOMAIN analysisState'.error
                /\ analysisState'.error.str # ""
          /\ (Finishes(i) /\ ModelCallFailed(calls[i])) =>
                analysisState'.error = Str(AnalyzeFailedMsg)]_vars

\* C14 witness: a call whose image read failed has ended in Failed with the
\* fallback message
C14_Witness ==
    /\ calls = <<>>
    /\ InFailed(analysisState)
    /\ analysisState.error = Str(FallbackMsg)

\* the entry a finishing step has appended
Appended == history'[Len(history')]

\* t is s without the white space at its two ends
IsTrimOf(t, s) ==
    \E a \in 1..(Len(s) + 1), b \in 0..Len(s) :
        /\ t = SubSeq(s, a, b)
        /\ \A k \in 1..Len(s) : (k < a \/ k > b) => IsWhitespace(s[k])
        /\ t # <<>> => (~IsWhitespace(t[1]) /\ ~IsWhitespace(t[Len(t)]))

\* C15, as claimed: the entry appended on success has the submitted text
\* verbatim and the numbers of photos sent in that call.
C15_EntryVerbatim ==
    [][\A i \in 1..Len(calls) :
          (Finishes(i) /\ InSucceeded(analysisState')) =>
             /\ Appended.text = calls[i].journalText
             /\ Appended.journalPhotoCount = Len(calls[i].jFiles)
             /\ Appended.spacePhotoCount = Len(calls[i].sFiles)]_vars

\* C15, amended: the entry appended on success has the submitted text without
\* the white space at its two ends and the numbers of photos sent in that
\* call, whatever the response held and whatever the form holds by then.
C15_EntryFromSubmitted ==
    [][\A i \in 1..Len(calls) :
          (Finishes(i) /\ InSucceeded(analysisState')) =>
             /\ IsTrimOf(Appended.text, calls[i].journalText)
             /\ Appended.journalPhotoCount = Len(calls[i].jFiles)
             /\ Appended.spacePhotoCount = Len(calls[i].sFiles)
             /\ DOMAIN Appended =
                   {"id", "timestamp", "text", "journalPhotoCount", "spacePhotoCount"}]_vars

\* C15 witness: an analysis of a text with white space at its ends and one
\* journal photo has succeeded, and the form holds no photo any more
C15_Witness ==
    /\ InSucceeded(analysisState)
    /\ Len(history) = 1
    /\ history[1].text = <<"a", "\n", "b">>
    /\ history[1].journalPhotoCount = 1
    /\ journalPhotos = <<>>

\* the form holds something to analyze
HasContent ==
    Len(Trim(journalText)) > 0 \/ Len(journalPhotos) > 0 \/ Len(spacePhotos) > 0

\* C16: the trigger is enabled exactly when no analysis is in flight and the
\* text is non-blank or a photo is present; it is disabled while the state is
\* Requesting, so an analysis starts through the page only when none is
\* pending.
C16_TriggerEnabled ==
    /\ [](/\ ~isAnalyzeDisabled <=> (calls = <<>> /\ HasContent)
          /\ InRequesting(analysisState) => isAnalyzeDisabled)
    /\ [][Len(calls') > Len(calls) =>
             (calls = <<>> /\ ~InRequesting(analysisState))]_vars

\* C16 witness: an analysis of photos without text is in flight, the form
\* still holds a photo, and the trigger is disabled
C16_Witness ==
    /\ Len(calls) = 1
    /\ Len(Trim(calls[1].journalText)) = 0
    /\ calls[1].pc = "model"
    /\ Len(journalPhotos) > 0
    /\ isAnalyzeDisabled

\* C17: from empty persisted state, a profile is present only with a
\* non-empty history, it appears only in a step that ends an analysis in
\* Succeeded, and it goes away only in a confirmed clear, which empties the
\* history in the same step.
C17_ProfileLifecycle ==
    /\ [](Truthy(profile) => Len(history) > 0)
    /\ [][/\ (~Truthy(profile) /\ Truthy(profile')) => InSucceeded(analysisState')
          /\ (Truthy(profile) /\ ~Truthy(profile')) => (Clear(TRUE) /\ history' = <<>>)]_vars

\* a caption followed by one image part per file, in the order of the files;
\* nothing for an empty batch
CaptionedBatch(caption, files) ==
    IF Len(files) = 0 THEN <<>>
    ELSE <<CaptionPart(caption)>> \o [k \in 1..Len(files) |-> GenerativePart(files[k])]

\* C18: the parts of a request are the context block, the text part (or its
\* marker), the journal caption with the journal photos in their order, the
\* space caption with the space photos in their order; an empty batch adds
\* neither caption nor image.
C18_PartsOrder ==
    \A i \in 1..Len(calls) :
        calls[i].pc = "model" =>
            /\ calls[i].parts[1] = ContextPart(calls[i].history, calls[i].profile)
            /\ calls[i].parts[2] = TextPart(calls[i].journalText)
            /\ SubSeq(calls[i].parts, 3, Len(calls[i].parts)) =
                  CaptionedBatch(JournalCaption, calls[i].jFiles)
                     \o CaptionedBatch(SpaceCaption, calls[i].sFiles)

\* C18 witness: a request was built from two different journal photos and
\* one space photo
C18_Witness ==
    \E i \in 1..Len(calls) :
        /\ calls[i].pc = "model"
        /\ Len(calls[i].jFiles) = 2
        /\ calls[i].jFiles[1] # calls[i].jFiles[2]
        /\ Len(calls[i].sFiles) = 1
        /\ Len(calls[i].parts) = 7

\* a part that carries the text of the current entry
CarriesText(part) == "text" \in DOMAIN part /\ "body" \in DOMAIN part.text
\* a part that carries the marker of an entry without text
CarriesMarker(part) ==
    /\ "text" \in DOMAIN part
    /\ "label" \in DOMAIN part.text
    /\ part.text.label = NoTextMarker

\* C19: every request carries either the text of the current entry, whole and
\* unchanged, or the marker of an entry without text, in exactly one part: the
\* text when it is non-blank, the marker when it is empty or white space only.
C19_TextOrMarker ==
    \A i \in 1..Len(calls) :
        calls[i].pc = "model" =>
            LET parts == calls[i].parts
                blank == \A k \in 1..Len(calls[i].journalText) :
                             IsWhitespace(calls[i].journalText[k])
            IN  /\ Cardinality({k \in 1..Len(parts) :
                                   CarriesText(parts[k]) \/ CarriesMarker(parts[k])}) = 1
                /\ blank <=> \E k \in 1..Len(parts) : CarriesMarker(parts[k])
                /\ ~blank => \E k \in 1..Len(parts) :
                                /\ CarriesText(parts[k])
                                /\ parts[k].text.body = calls[i].journalText

\* C19 witness: a request carries, whole, a text longer than the snippet
\* bound of the history
C19_Witness ==
    \E i \in 1..Len(calls) :
        /\ calls[i].pc = "model"
        /\ Len(calls[i].journalText) > SnippetBound
        /\ Len(calls[i].parts[2].text.body) = Len(calls[i].journalText)

\* the profile text of the context block of a pending call
ProfileTextOf(c) == c.parts[1].text.previousProfileText

\* C20: the context block of a request holds the profile the call started
\* with, as it is, or the marker when there is none; that profile is the one
\* in memory at the trigger, and the profile in memory is always the one the
\* most recent successful call produced since the last clear: it changes only
\* on load, in a confirmed clear, and in a step that ends a call in Succeeded,
\* where it becomes the pattern_profile of that call's response.
C20_ProfileSent ==
    /\ [](\A i \in 1..Len(calls) :
             calls[i].pc = "model" =>
                IF calls[i].profile \in {Null, Undefined}
                THEN ProfileTextOf(calls[i]) = [raw |-> NoProfileText]
                ELSE ProfileTextOf(calls[i]) = [json |-> calls[i].profile])
    /\ [][/\ Len(calls') > Len(calls) => calls'[Len(calls')].profile = profile
          /\ profile' # profile =>
                \/ phase = "mount" /\ phase' = "ready"
                \/ Clear(TRUE)
                \/ \E i \in 1..Len(calls) :
                      /\ Finishes(i)
                      /\ InSucceeded(analysisState')
                      /\ profile' = calls[i].result.pattern_profile]_vars

-----------------------------------------------------------------------------
(* C21..C26 *)

\* the fields of a persisted entry: of the photos, their counts only
EntryFields == {"id", "timestamp", "text", "journalPhotoCount", "spacePhotoCount"}

\* a persisted history record holds entries with the fields of JournalEntry
\* and nothing else
HoldsCountsOnly(record) ==
    IsJSON(record) =>
        \A k \in 1..Len(JSONparse(record)) :
            /\ DOMAIN JSONparse(record)[k] = EntryFields
            /\ JSONparse(record)[k].journalPhotoCount \in Nat
            /\ JSONparse(record)[k].spacePhotoCount \in Nat

\* the form holds none of these files
HoldsNone(photos, files) ==
    \A k \in 1..Len(photos) : \A j \in 1..Len(files) : photos[k].file # files[j]

\* C21: when a call completes, in Succeeded or in Failed, the photos submitted
\* with it are released: the application state holds none of them any more,
\* so that a later call can send them only if the user selects them again;
\* and the persisted history holds nothing of the photos but their counts.
C21_PhotosReleased ==
    [][\A i \in 1..Len(calls) :
          Finishes(i) =>
             /\ HoldsNone(journalPhotos', calls[i].jFiles)
             /\ HoldsNone(spacePhotos', calls[i].sFiles)
             /\ HoldsCountsOnly(storedHistory')]_vars

\* the history this pending call started from was cleared while it was pending
ClearedInFlight(c) == Len(c.history) > 0 /\ history = <<>>

\* no entry of old is an entry of h
NoneBack(old, h) ==
    \A k \in 1..Len(old) : \A j \in 1..Len(h) : h[j] # old[k]

\* C22: a clear confirmed while an analysis is pending stays effective: when
\* the call completes, no entry from before the clear is back in the history
\* in memory or in the persisted history, and no profile derived by that call
\* is present.
C22_ClearStaysEffective ==
    [][\A i \in 1..Len(calls) :
          (Finishes(i) /\ ClearedInFlight(calls[i])) =>
             /\ NoneBack(calls[i].history, history')
             /\ IsJSON(storedHistory') =>
                   NoneBack(calls[i].history, JSONparse(storedHistory'))
             /\ ~Truthy(profile')]_vars

\* C23: for any interleaving of invocations, two that overlap included, a
\* call that ends in Succeeded adds its entry to the history as it is then,
\* so that no earlier call's entry is lost and the length grows by one with
\* every success (calls whose history was cleared while they were pending
\* aside).
C23_NoLostEntry ==
    [][\A i \in 1..Len(calls) :
          (Finishes(i) /\ InSucceeded(analysisState') /\ ~ClearedInFlight(calls[i])) =>
             /\ Len(history') = Len(history) + 1
             /\ SubSeq(history', 1, Len(history)) = history]_vars

\* a persisted record deserializes to the value in memory, or is absent when
\* there is none
Agrees(record, value, none) ==
    IF record = Null THEN value = none
    ELSE IsJSON(record) /\ JSONparse(record) = value

\* C24: whenever the page has loaded and no analysis is pending, the
\* patternMirrorHistory record deserializes to the history in memory (or is
\* absent when it is empty) and the patternMirrorProfile record to the
\* profile in memory (or is absent when there is none).
C24_PersistedAgrees ==
    (phase = "ready" /\ calls = <<>>) =>
        /\ Agrees(storedHistory, history, <<>>)
        /\ Agrees(storedProfile, profile, Null)

\* C25: an analysis started through the enabled button has a non-blank text
\* or a photo when analyzePatterns checks it: no call triggered from the page
\* fails the no-content validation, and the no-content message is never
\* shown.
C25_ValidationUnreachable ==
    /\ \A i \in 1..Len(calls) :
          /\ ~NoContent(calls[i].journalText, calls[i].jFiles, calls[i].sFiles)
          /\ calls[i].error # Error(NoContentMsg)
    /\ analysisState.error # Str(NoContentMsg)

\* C25 witness: a call started for a photo without text has passed the
\* validation and sent its request after the user emptied the form
C25_Witness ==
    /\ Len(calls) = 1
    /\ calls[1].pc = "model"
    /\ Len(Trim(calls[1].journalText)) = 0
    /\ ~HasContent

\* the analysis has ended and the button is enabled again if the form holds
\* something to analyze
Completed ==
    /\ InSucceeded(analysisState) \/ InFailed(analysisState)
    /\ HasContent => ~isAnalyzeDisabled

\* C26: when every image read and the model call settle, an analysis that
\* enters Requesting reaches Succeeded or Failed and the trigger is enabled
\* again; Requesting is left in no other way than by the end of the pending
\* call, so it lasts as long as the model call does not return.
C26_EventuallyCompletes ==
    /\ InRequesting(analysisState) ~> Completed
    /\ [][(analysisState.isLoading /\ ~analysisState'.isLoading)
             => \E i \in 1..Len(calls) : Finishes(i)]_vars

\* C26 witness: an analysis with a photo has gone through the image read and
\* the model call, has succeeded, and the trigger is enabled again
C26_Witness ==
    /\ calls = <<>>
    /\ InSucceeded(analysisState)
    /\ Len(history) = 1
    /\ history[1].spacePhotoCount = 1
    /\ ~isAnalyzeDisabled

=============================================================================
